---------------------------- MODULE Spec2Model ----------------------------
(* A model of src/src/datasource-zabbix/zabbix.js: the filter-resolution   *)
(* pipeline of class Zabbix (groups -> hosts -> applications -> items ->   *)
(* triggers) and the user-macro expansion of item names.                   *)
(*                                                                         *)
(* JavaScript strings are modelled as sequences of one-character strings,  *)
(* so that regular-expression matching and String.replace are computed     *)
(* character by character.                                                 *)
EXTENDS Integers, Sequences, FiniteSets, TLC

VARIABLES
  op,         \* the top-level call in progress: its name and arguments
  chains,     \* the resolution chains of the call, each with its position
  calls,      \* every collaborator call issued so far, in order of issue
  top,        \* the pending result of the top-level call
  lastIndex,  \* MACRO_PATTERN.lastIndex
  mItems,     \* expandUserMacro: the items, rewritten in place
  mOrig,      \* expandUserMacro: the items as they were passed in
  mMacros,    \* expandUserMacro: the macros getMacros resolved to
  mIdx,       \* expandUserMacro: the position of _.forEach
  fList,      \* findByFilter: the list argument
  fFilter,    \* findByFilter: the filter argument
  fResult     \* findByFilter: the returned list, once it has returned

vars == <<op, chains, calls, top, lastIndex, mItems, mOrig, mMacros, mIdx,
          fList, fFilter, fResult>>

pipelineVars == <<op, chains, calls, top>>

macroVars == <<mItems, mOrig, mMacros, mIdx>>

findVars == <<fList, fFilter, fResult>>

(***************************************************************************)
(* JavaScript values                                                       *)
(***************************************************************************)

\* a filter argument: a string, or undefined
Str(s) == [undef |-> FALSE, str |-> s]

Undefined == [undef |-> TRUE, str |-> <<>>]

\* JavaScript truthiness of a string-or-undefined argument (if (appFilter))
Truthy(f) == ~f.undef /\ f.str # <<>>

\* no top-level call in progress
NoOp ==
  [name |-> "none", groupFilter |-> Undefined, hostFilter |-> Undefined,
   appFilter |-> Undefined, itemFilter |-> Undefined,
   showDisabledItems |-> FALSE]

\* the pending result of the top-level call, before any call
NoTop == [status |-> "idle", err |-> "", items |-> <<>>]

\* a macro record without a hostid field (a global macro)
NoHostId == "undefined"

\* JavaScript truthiness of m.hostid
TruthyId(h) == h # NoHostId /\ h # ""

RECURSIVE MapSeq(_, _)
MapSeq(Op(_), s) ==
  IF s = <<>> THEN <<>> ELSE <<Op(Head(s))>> \o MapSeq(Op, Tail(s))

RECURSIVE IndexOfChar(_, _, _)
\* the first position >= i of character c in s, 0 when there is none
IndexOfChar(s, c, i) ==
  IF i > Len(s) THEN 0
  ELSE IF s[i] = c THEN i
  ELSE IndexOfChar(s, c, i + 1)

RECURSIVE Uniq(_)
\* _.uniq: the first occurrence of every value, in order
Uniq(s) ==
  IF s = <<>> THEN <<>>
  ELSE LET r == Uniq(SubSeq(s, 1, Len(s) - 1))
           x == s[Len(s)]
       IN IF \E i \in 1..Len(r) : r[i] = x THEN r ELSE Append(r, x)

RECURSIVE Flatten(_)
\* _.flatten of a list of lists
Flatten(ss) == IF ss = <<>> THEN <<>> ELSE Head(ss) \o Flatten(Tail(ss))

(***************************************************************************)
(* utils.isRegex / utils.buildRegex (./utils is not among the sources):    *)
(* a filter enclosed in slashes is a regular expression.  The pattern      *)
(* bodies used here are ".*" and plain literal characters, for which       *)
(* RegExp.test is a substring search.                                      *)
(***************************************************************************)

isRegex(f) ==
  /\ ~f.undef
  /\ Len(f.str) >= 2
  /\ f.str[1] = "/"
  /\ f.str[Len(f.str)] = "/"

buildRegex(f) == SubSeq(f.str, 2, Len(f.str) - 1)

IsSubstringAt(p, s, i) ==
  /\ i + Len(p) - 1 <= Len(s)
  /\ \A k \in 1..Len(p) : s[i + k - 1] = p[k]

RegexTest(body, s) ==
  IF body = <<".", "*">> THEN TRUE
  ELSE \E i \in 1..(Len(s) + 1) : IsSubstringAt(body, s, i)

(***************************************************************************)
(* find / filter helpers                                                   *)
(***************************************************************************)

\* _.matches({'name': name}) on an element whose name is a string
NameIs(e, name) == ~name.undef /\ e.name = name.str

RECURSIVE FindIndex(_, _, _)
\* _.find: position of the first element satisfying Test, 0 when none
FindIndex(list, Test(_), i) ==
  IF i > Len(list) THEN 0
  ELSE IF Test(list[i]) THEN i
  ELSE FindIndex(list, Test, i + 1)

\* findByName with _.filter in the place of _.find
filterByNameAsFind(list, name) == SelectSeq(list, LAMBDA e : NameIs(e, name))

findByName(list, name) ==
  LET i == FindIndex(list, LAMBDA e : NameIs(e, name), 1)
  IN IF i > 0 THEN <<list[i]>> ELSE <<>>

filterByName(list, name) == SelectSeq(list, LAMBDA e : NameIs(e, name))

filterByRegex(list, regex) ==
  LET filterPattern == buildRegex(regex)
  IN SelectSeq(list, LAMBDA zbx_obj : RegexTest(filterPattern, zbx_obj.name))

findByFilter(list, filter) ==
  IF isRegex(filter) THEN filterByRegex(list, filter)
  ELSE findByName(list, filter)

filterByQuery(list, filter) ==
  IF isRegex(filter) THEN filterByRegex(list, filter)
  ELSE filterByName(list, filter)

\* getHostIds: the distinct host ids of the items' owning hosts
getHostIds(items) == Uniq(Flatten(MapSeq(LAMBDA item : item.hosts, items)))

(***************************************************************************)
(* MACRO_PATTERN = /{\$[A-Z0-9_\.]+}/g and the regular-expression          *)
(* operations on it.  lastIndex is the 0-based match position the global   *)
(* pattern keeps between calls.                                            *)
(***************************************************************************)

\* the character class [A-Z0-9_\.]
MacroClass ==
  {"A", "B", "C", "D", "E", "F", "G", "H", "I", "J", "K", "L", "M",
   "N", "O", "P", "Q", "R", "S", "T", "U", "V", "W", "X", "Y", "Z",
   "0", "1", "2", "3", "4", "5", "6", "7", "8", "9", "_", "."}

RECURSIVE RunLen(_, _)
\* the number of consecutive class characters of s from position j
RunLen(s, j) ==
  IF j <= Len(s) /\ s[j] \in MacroClass THEN 1 + RunLen(s, j + 1) ELSE 0

\* the length of the match of MACRO_PATTERN at position i of s, 0 when none
MACRO_PATTERN(s, i) ==
  IF i + 1 <= Len(s) /\ s[i] = "{" /\ s[i + 1] = "$"
  THEN LET r == RunLen(s, i + 2)
       IN IF r >= 1 /\ i + 2 + r <= Len(s) /\ s[i + 2 + r] = "}"
          THEN r + 3 ELSE 0
  ELSE 0

RECURSIVE RegExpExec(_, _)
\* the leftmost match of MACRO_PATTERN at a position >= i (1-based)
RegExpExec(s, i) ==
  IF i > Len(s) THEN [found |-> FALSE, index |-> 0, len |-> 0]
  ELSE LET n == MACRO_PATTERN(s, i)
       IN IF n > 0 THEN [found |-> TRUE, index |-> i, len |-> n]
          ELSE RegExpExec(s, i + 1)

\* MACRO_PATTERN.test(itemName) with the pattern's lastIndex li:
\* the result and the lastIndex it leaves
containsMacro(itemName, li) ==
  IF li > Len(itemName) THEN [res |-> FALSE, lastIndex |-> 0]
  ELSE LET m == RegExpExec(itemName, li + 1)
       IN IF m.found
          THEN [res |-> TRUE, lastIndex |-> m.index - 1 + m.len]
          ELSE [res |-> FALSE, lastIndex |-> 0]

RECURSIVE MatchAllFrom(_, _)
MatchAllFrom(s, i) ==
  LET m == RegExpExec(s, i)
  IN IF m.found
     THEN <<SubSeq(s, m.index, m.index + m.len - 1)>>
            \o MatchAllFrom(s, m.index + m.len)
     ELSE <<>>

\* itemName.match(MACRO_PATTERN): every match from position 0, whatever
\* lastIndex was; it leaves lastIndex = 0
StringMatch(s) == MatchAllFrom(s, 1)

\* escapeMacro: the first "$" becomes "\$"
escapeMacro(macro) ==
  LET k == IndexOfChar(macro, "$", 1)
  IN IF k = 0 THEN macro
     ELSE SubSeq(macro, 1, k - 1) \o <<"\\", "$">>
            \o SubSeq(macro, k + 1, Len(macro))

RECURSIVE NewRegExp(_)
\* new RegExp(source) for a source of literal characters, "\c" escapes and
\* ".": the list of atoms, "." matching any character
NewRegExp(p) ==
  IF p = <<>> THEN <<>>
  ELSE IF p[1] = "\\" /\ Len(p) >= 2
       THEN <<[any |-> FALSE, ch |-> p[2]]>> \o NewRegExp(SubSeq(p, 3, Len(p)))
  ELSE IF p[1] = "."
       THEN <<[any |-> TRUE, ch |-> "."]>> \o NewRegExp(Tail(p))
  ELSE <<[any |-> FALSE, ch |-> p[1]]>> \o NewRegExp(Tail(p))

AtomsMatchAt(re, s, i) ==
  /\ i + Len(re) - 1 <= Len(s)
  /\ \A k \in 1..Len(re) : re[k].any \/ s[i + k - 1] = re[k].ch

RECURSIVE LeftmostMatch(_, _, _)
LeftmostMatch(re, s, i) ==
  IF i > Len(s) THEN 0
  ELSE IF AtomsMatchAt(re, s, i) THEN i
  ELSE LeftmostMatch(re, s, i + 1)

RECURSIVE GetSubstitution(_, _, _, _)
\* the replacement text of String.replace: $$, $&, $` and $' are patterns
GetSubstitution(r, matched, before, after) ==
  IF r = <<>> THEN <<>>
  ELSE IF r[1] = "$" /\ Len(r) >= 2 /\ r[2] \in {"$", "&", "`", "'"}
       THEN (CASE r[2] = "$" -> <<"$">>
               [] r[2] = "&" -> matched
               [] r[2] = "`" -> before
               [] r[2] = "'" -> after)
            \o GetSubstitution(SubSeq(r, 3, Len(r)), matched, before, after)
  ELSE <<r[1]>> \o GetSubstitution(Tail(r), matched, before, after)

\* s.replace(re, value) for a non-global re: the leftmost match only
StringReplace(s, re, value) ==
  LET i == LeftmostMatch(re, s, 1)
  IN IF i = 0 THEN s
     ELSE LET before == SubSeq(s, 1, i - 1)
              after == SubSeq(s, i + Len(re), Len(s))
              matched == SubSeq(s, i, i + Len(re) - 1)
          IN before \o GetSubstitution(value, matched, before, after) \o after

(***************************************************************************)
(* replaceMacro                                                            *)
(***************************************************************************)

\* host_macros without the global macros
hostMacrosOwnOnly(item, macros) ==
  SelectSeq(macros, LAMBDA m : m.hostid = item.hostid)

\* host_macros: the global macros and the macros of the item's host
hostMacros(item, macros) ==
  SelectSeq(macros, LAMBDA m :
    IF TruthyId(m.hostid) THEN m.hostid = item.hostid ELSE TRUE)

\* one iteration of the loop over item_macros
replaceOne(itemName, item, macros, macro) ==
  LET host_macros == hostMacros(item, macros)
      d == FindIndex(host_macros, LAMBDA m : m.macro = macro, 1)
  IN IF d > 0 /\ host_macros[d].value # <<>>
     THEN StringReplace(itemName, NewRegExp(escapeMacro(macro)),
                        host_macros[d].value)
     ELSE itemName

RECURSIVE replaceLoop(_, _, _, _)
replaceLoop(itemName, item, macros, item_macros) ==
  IF item_macros = <<>> THEN itemName
  ELSE replaceLoop(replaceOne(itemName, item, macros, Head(item_macros)),
                   item, macros, Tail(item_macros))

replaceMacro(item, macros) ==
  replaceLoop(item.name, item, macros, StringMatch(item.name))


\* the body of _.forEach(items, ...) for one item, MACRO_PATTERN.lastIndex
\* being li: the item's name afterwards, and the lastIndex left behind.
\* containsMacro moves lastIndex; the String.match of replaceMacro, which
\* runs whenever containsMacro said yes, leaves it at 0.
forEachBody(item, macros, li) ==
  LET t == containsMacro(item.name, li)
  IN IF t.res
     THEN [name |-> replaceMacro(item, macros), lastIndex |-> 0]
     ELSE [name |-> item.name, lastIndex |-> t.lastIndex]

RECURSIVE forEach(_, _, _)
\* _.forEach(items, ...): the items afterwards and the lastIndex left
forEach(items, macros, li) ==
  IF items = <<>> THEN [items |-> <<>>, lastIndex |-> li]
  ELSE LET r == forEachBody(Head(items), macros, li)
           rest == forEach(Tail(items), macros, r.lastIndex)
       IN [items |-> <<[Head(items) EXCEPT !.name = r.name]>> \o rest.items,
           lastIndex |-> rest.lastIndex]

(***************************************************************************)
(* expandUserMacro as a state machine: the callback of getMacros, one      *)
(* step per iteration of _.forEach(items, ...).  MACRO_PATTERN is shared   *)
(* by all calls, so lastIndex survives from one call to the next.          *)
(***************************************************************************)

MaxItems == 2

MaxMacros == 2

TokAXB == <<"{", "$", "A", "X", "B", "}">>

TokADotB == <<"{", "$", "A", ".", "B", "}">>

Tokens == {TokAXB, TokADotB}

ItemNames ==
  {<<"c">>,
   <<"c">> \o TokAXB,
   TokAXB \o TokADotB,
   TokAXB \o TokAXB}

ItemHostIds == {"10", "11"}

MacroHostIds == {NoHostId, "10"}

MacroValues == {<<>>, <<"s">>}

MacroItems == [name : ItemNames, hostid : ItemHostIds]

MacroDefs == [macro : Tokens, hostid : MacroHostIds, value : MacroValues]

SeqsUpTo(S, n) == UNION {[1..k -> S] : k \in 0..n}

InitMacro ==
  /\ mItems = <<>>
  /\ mOrig = <<>>
  /\ mMacros = <<>>
  /\ mIdx = 0
  /\ lastIndex = 0
  /\ op = NoOp /\ chains = <<>> /\ calls = <<>> /\ top = NoTop
  /\ fList = <<>> /\ fFilter = Undefined
  /\ fResult = [returned |-> FALSE, list |-> <<>>]

\* expandUserMacro(items), at the point where getMacros has resolved to
\* macros and the callback starts its loop
expandUserMacro ==
  /\ mIdx = 0
  /\ mItems' \in SeqsUpTo(MacroItems, MaxItems)
  /\ mOrig' = mItems'
  /\ mMacros' \in SeqsUpTo(MacroDefs, MaxMacros)
  /\ mIdx' = 1
  /\ UNCHANGED <<lastIndex, pipelineVars, findVars>>

forEachItem ==
  /\ mIdx >= 1 /\ mIdx <= Len(mItems)
  /\ \E r \in {forEachBody(mItems[mIdx], mMacros, lastIndex)} :
       /\ mItems' = [mItems EXCEPT ![mIdx].name = r.name]
       /\ lastIndex' = r.lastIndex
  /\ mIdx' = mIdx + 1
  /\ UNCHANGED <<mOrig, mMacros, pipelineVars, findVars>>

\* the loop is over: the callback returns the items
returnItems ==
  /\ mIdx >= 1 /\ mIdx > Len(mItems)
  /\ mItems' = <<>>
  /\ mOrig' = <<>>
  /\ mMacros' = <<>>
  /\ mIdx' = 0
  /\ UNCHANGED <<lastIndex, pipelineVars, findVars>>

NextMacro == expandUserMacro \/ forEachItem \/ returnItems

SpecMacro == InitMacro /\ [][NextMacro]_vars

(***************************************************************************)
(* The collaborators.  zabbixAPI and cachingProxy are not among the        *)
(* sources; their calls are recorded with their arguments, and a call      *)
(* either fails or resolves to the part of a fixed inventory that the      *)
(* given ids select (an undefined id list does not constrain).             *)
(***************************************************************************)

\* an id-list argument: a list, or undefined
Ids(s) == [def |-> TRUE, ids |-> s]

NoIds == [def |-> FALSE, ids |-> <<>>]

SetOf(s) == {s[i] : i \in 1..Len(s)}

AllGroups ==
  <<[groupid |-> "1", name |-> <<"a">>],
    [groupid |-> "2", name |-> <<"b">>]>>

AllHosts ==
  <<[hostid |-> "10", name |-> <<"h">>, groupid |-> "1"],
    [hostid |-> "11", name |-> <<"k">>, groupid |-> "1"],
    [hostid |-> "12", name |-> <<"h">>, groupid |-> "2"]>>

AllApps ==
  <<[applicationid |-> "100", name |-> <<"p">>, hostid |-> "10"],
    [applicationid |-> "101", name |-> <<"p">>, hostid |-> "11"],
    [applicationid |-> "102", name |-> <<"q">>, hostid |-> "12"]>>

AllItems ==
  <<[itemid |-> "1", name |-> <<"c">> \o TokAXB, status |-> "0",
     hostid |-> "10", hosts |-> <<"10">>, applicationid |-> "100"],
    [itemid |-> "2", name |-> <<"d">>, status |-> "1",
     hostid |-> "10", hosts |-> <<"10">>, applicationid |-> "100"],
    [itemid |-> "3", name |-> <<"c">> \o TokAXB, status |-> "0",
     hostid |-> "11", hosts |-> <<"11">>, applicationid |-> "101"],
    [itemid |-> "4", name |-> <<"d">>, status |-> "0",
     hostid |-> "12", hosts |-> <<"12">>, applicationid |-> "102"]>>

AllMacros ==
  <<[macro |-> TokAXB, hostid |-> "10", value |-> <<"s">>],
    [macro |-> TokADotB, hostid |-> NoHostId, value |-> <<"t">>]>>

proxyGetGroups == AllGroups

proxyGetHosts(groupids) ==
  SelectSeq(AllHosts, LAMBDA h : h.groupid \in SetOf(groupids))

proxyGetApps(hostids) ==
  SelectSeq(AllApps, LAMBDA a : a.hostid \in SetOf(hostids))

proxyGetItems(hostids, appids) ==
  SelectSeq(AllItems, LAMBDA i :
    /\ hostids.def => i.hostid \in SetOf(hostids.ids)
    /\ appids.def => i.applicationid \in SetOf(appids.ids))

proxyGetMacros(hostids) ==
  SelectSeq(AllMacros, LAMBDA m :
    ~TruthyId(m.hostid) \/ m.hostid \in SetOf(hostids))

\* the errors a collaborator call may fail with
Errors == {"e1", "e2"}

\* a collaborator call, as issued by chain c (0: by the top-level call)
Call(fn, c, a1, a2) ==
  [fn |-> fn, chain |-> c, a1 |-> a1, a2 |-> a2, a3 |-> NoIds,
   st |-> "pending", err |-> ""]

\* the position in the log of the pending call of chain c, 0 when none
PendingOf(c) ==
  IF \E i \in 1..Len(calls) : calls[i].chain = c /\ calls[i].st = "pending"
  THEN CHOOSE i \in 1..Len(calls) :
         calls[i].chain = c /\ calls[i].st = "pending"
  ELSE 0

\* the log once the pending call of chain c has settled
Settled(c, st, err) ==
  [calls EXCEPT ![PendingOf(c)].st = st, ![PendingOf(c)].err = err]

(***************************************************************************)
(* The resolution chains of class Zabbix.  A chain is one call of          *)
(* getGroups, getHosts, getApps or getItems with everything it calls; pc   *)
(* names the collaborator call it is waiting for.  Each step below is the  *)
(* run of the .then callbacks between two collaborator calls.  The         *)
(* arguments the class only hands on (options.itemtype, showTriggers,      *)
(* hideHostsInMaintenance) are not recorded.                               *)
(***************************************************************************)

NoApps == [appFilterEmpty |-> FALSE, hostids |-> <<>>, list |-> <<>>]

NewChain(kind) ==
  [kind |-> kind, pc |-> "getGroups", groups |-> <<>>, hosts |-> <<>>,
   apps |-> NoApps, items |-> <<>>, err |-> ""]

\* what a step of a chain yields: the chain afterwards and the calls issued
Step(ch, new) == [ch |-> ch, new |-> new]

\* getAllItems passing both the host ids and the application ids
getAllItemsThenBoth(c, ch, apps) ==
  LET appids == MapSeq(LAMBDA a : a.applicationid, apps.list)
  IN Step([ch EXCEPT !.pc = "getItems", !.apps = apps],
          <<Call("getItems", c, Ids(apps.hostids), Ids(appids))>>)

\* getAllItems, first callback: items by host ids for the sentinel, by
\* application ids otherwise
getAllItemsThen(c, ch, apps) ==
  IF apps.appFilterEmpty
  THEN Step([ch EXCEPT !.pc = "getItems", !.apps = apps],
            <<Call("getItems", c, Ids(apps.hostids), NoIds)>>)
  ELSE LET appids == MapSeq(LAMBDA a : a.applicationid, apps.list)
       IN Step([ch EXCEPT !.pc = "getItems", !.apps = apps],
               <<Call("getItems", c, NoIds, Ids(appids))>>)

\* getApps has resolved to apps
getAppsResolved(c, ch, apps) ==
  IF ch.kind = "getApps"
  THEN Step([ch EXCEPT !.pc = "done", !.apps = apps], <<>>)
  ELSE getAllItemsThen(c, ch, apps)

\* getGroups, and the callback of getAllHosts
getGroupsThen(c, ch, groups) ==
  LET found == findByFilter(groups, op.groupFilter)
  IN IF ch.kind = "getGroups"
     THEN Step([ch EXCEPT !.pc = "done", !.groups = found], <<>>)
     ELSE LET groupids == MapSeq(LAMBDA g : g.groupid, found)
          IN Step([ch EXCEPT !.pc = "getHosts", !.groups = found],
                  <<Call("getHosts", c, Ids(groupids), NoIds)>>)

\* getHosts, and the callback of getApps
getHostsThen(c, ch, hosts) ==
  LET found == findByFilter(hosts, op.hostFilter)
      hostids == MapSeq(LAMBDA h : h.hostid, found)
  IN IF ch.kind = "getHosts"
     THEN Step([ch EXCEPT !.pc = "done", !.hosts = found], <<>>)
     ELSE IF Truthy(op.appFilter)
          THEN Step([ch EXCEPT !.pc = "getApps", !.hosts = found],
                    <<Call("getApps", c, Ids(hostids), NoIds)>>)
          ELSE getAppsResolved(c, [ch EXCEPT !.hosts = found],
                 [appFilterEmpty |-> TRUE, hostids |-> hostids, list |-> <<>>])

\* the inner callback of getApps: filterByQuery on the applications
getAppsThen(c, ch, apps) ==
  getAppsResolved(c, ch,
    [appFilterEmpty |-> FALSE, hostids |-> <<>>,
     list |-> filterByQuery(apps, op.appFilter)])

\* getAllItems, second callback (the status filter), and the first part of
\* expandUserMacro
getItemsThen(c, ch, items) ==
  LET kept == IF ~op.showDisabledItems
              THEN SelectSeq(items, LAMBDA i : i.status = "0")
              ELSE items
  IN Step([ch EXCEPT !.pc = "getMacros", !.items = kept],
          <<Call("getMacros", c, Ids(getHostIds(kept)), NoIds)>>)

\* the callback of expandUserMacro, then the callback of getItems
getMacrosThen(ch, macros, li) ==
  LET r == forEach(ch.items, macros, li)
  IN [ch |-> [ch EXCEPT !.pc = "done",
                        !.items = filterByQuery(r.items, op.itemFilter)],
      lastIndex |-> r.lastIndex]

\* a chain that would catch the failure and resolve
rejectedRecovered(ch, e) == [ch EXCEPT !.pc = "done"]

\* a collaborator call of the chain failed with e: no callback of the
\* chain runs, the chain fails with e
rejected(ch, e) == [ch EXCEPT !.pc = "failed", !.err = e]

\* the pending result of getItems, given its chain
getItemsResult(ch) ==
  IF ch.pc = "done"
  THEN [status |-> "resolved", err |-> "", items |-> ch.items]
  ELSE IF ch.pc = "failed"
  THEN [status |-> "rejected", err |-> ch.err, items |-> <<>>]
  ELSE [status |-> "pending", err |-> "", items |-> <<>>]

\* Promise.race in the place of Promise.all
PromiseRace(chs) ==
  IF \E c \in 1..Len(chs) : chs[c].pc = "failed" THEN "rejected"
  ELSE IF \E c \in 1..Len(chs) : chs[c].pc = "done" THEN "resolved"
  ELSE "pending"

\* Promise.all(promises): rejected once one chain has failed, resolved
\* once all have resolved
PromiseAll(chs) ==
  IF \E c \in 1..Len(chs) : chs[c].pc = "failed" THEN "rejected"
  ELSE IF \A c \in 1..Len(chs) : chs[c].pc = "done" THEN "resolved"
  ELSE "pending"

\* a query that would set every dimension, filter or no filter
getTriggersQueryAlways(results) ==
  [groupids |-> Ids(MapSeq(LAMBDA g : g.groupid, results[1].groups)),
   hostids |-> Ids(MapSeq(LAMBDA h : h.hostid, results[2].hosts)),
   applicationids |->
     Ids(MapSeq(LAMBDA a : a.applicationid, results[3].apps.list))]

\* the query getTriggers builds from the three results
getTriggersQuery(results) ==
  [groupids |->
     IF Truthy(op.groupFilter)
     THEN Ids(MapSeq(LAMBDA g : g.groupid, results[1].groups)) ELSE NoIds,
   hostids |->
     IF Truthy(op.hostFilter)
     THEN Ids(MapSeq(LAMBDA h : h.hostid, results[2].hosts)) ELSE NoIds,
   applicationids |->
     IF Truthy(op.appFilter)
     THEN Ids(MapSeq(LAMBDA a : a.applicationid, results[3].apps.list))
     ELSE NoIds]

GroupFilters ==
  {Undefined, Str(<<>>), Str(<<"a">>), Str(<<"z">>),
   Str(<<"/", ".", "*", "/">>)}

HostFilters ==
  {Undefined, Str(<<>>), Str(<<"h">>), Str(<<"/", ".", "*", "/">>)}

AppFilters ==
  {Undefined, Str(<<>>), Str(<<"p">>), Str(<<"z">>),
   Str(<<"/", ".", "*", "/">>)}

ItemFilters == {Undefined, Str(<<"c", "s">>), Str(<<"/", ".", "*", "/">>)}

Init ==
  /\ op = NoOp
  /\ chains = <<>>
  /\ calls = <<>>
  /\ top = NoTop
  /\ lastIndex = 0
  /\ mItems = <<>> /\ mOrig = <<>> /\ mMacros = <<>> /\ mIdx = 0
  /\ fList = <<>> /\ fFilter = Undefined
  /\ fResult = [returned |-> FALSE, list |-> <<>>]

\* getItems(groupFilter, hostFilter, appFilter, itemFilter, options): down
\* to the first collaborator call, cachingProxy.getGroups()
getItems(groupFilter, hostFilter, appFilter, itemFilter, showDisabledItems) ==
  /\ op.name = "none"
  /\ op' = [name |-> "getItems", groupFilter |-> groupFilter,
            hostFilter |-> hostFilter, appFilter |-> appFilter,
            itemFilter |-> itemFilter,
            showDisabledItems |-> showDisabledItems]
  /\ chains' = <<NewChain("getItems")>>
  /\ calls' = <<Call("getGroups", 1, NoIds, NoIds)>>
  /\ top' = [NoTop EXCEPT !.status = "pending"]
  /\ UNCHANGED <<lastIndex, macroVars, findVars>>

\* getTriggers(groupFilter, hostFilter, appFilter, ...): getGroups,
\* getHosts and getApps are called one after the other, each as far as
\* its cachingProxy.getGroups(), then Promise.all waits
getTriggers(groupFilter, hostFilter, appFilter) ==
  /\ op.name = "none"
  /\ op' = [NoOp EXCEPT !.name = "getTriggers",
                        !.groupFilter = groupFilter,
                        !.hostFilter = hostFilter,
                        !.appFilter = appFilter]
  /\ chains' = <<NewChain("getGroups"), NewChain("getHosts"),
                 NewChain("getApps")>>
  /\ calls' = <<Call("getGroups", 1, NoIds, NoIds),
                Call("getGroups", 2, NoIds, NoIds),
                Call("getGroups", 3, NoIds, NoIds)>>
  /\ top' = [NoTop EXCEPT !.status = "pending"]
  /\ UNCHANGED <<lastIndex, macroVars, findVars>>

\* the state after chain c has taken step r
Continue(c, r) ==
  /\ chains' = [chains EXCEPT ![c] = r.ch]
  /\ calls' = Settled(c, "ok", "") \o r.new
  /\ top' = IF op.name = "getItems" THEN getItemsResult(r.ch) ELSE top
  /\ UNCHANGED <<op, macroVars, findVars>>

\* cachingProxy.getGroups() of chain c resolves
resolveGroups(c) ==
  /\ c \in 1..Len(chains) /\ chains[c].pc = "getGroups"
  /\ Continue(c, getGroupsThen(c, chains[c], proxyGetGroups))
  /\ UNCHANGED lastIndex

\* cachingProxy.getHosts(groupids) of chain c resolves
resolveHosts(c) ==
  /\ c \in 1..Len(chains) /\ chains[c].pc = "getHosts"
  /\ Continue(c, getHostsThen(c, chains[c],
                   proxyGetHosts(calls[PendingOf(c)].a1.ids)))
  /\ UNCHANGED lastIndex

\* cachingProxy.getApps(hostids) of chain c resolves
resolveApps(c) ==
  /\ c \in 1..Len(chains) /\ chains[c].pc = "getApps"
  /\ Continue(c, getAppsThen(c, chains[c],
                   proxyGetApps(calls[PendingOf(c)].a1.ids)))
  /\ UNCHANGED lastIndex

\* cachingProxy.getItems(hostids, appids, itemtype) of chain c resolves
resolveItems(c) ==
  /\ c \in 1..Len(chains) /\ chains[c].pc = "getItems"
  /\ Continue(c, getItemsThen(c, chains[c],
                   proxyGetItems(calls[PendingOf(c)].a1,
                                 calls[PendingOf(c)].a2)))
  /\ UNCHANGED lastIndex

\* cachingProxy.getMacros(hostids) of chain c resolves
resolveMacros(c) ==
  /\ c \in 1..Len(chains) /\ chains[c].pc = "getMacros"
  /\ LET r == getMacrosThen(chains[c],
                proxyGetMacros(calls[PendingOf(c)].a1.ids), lastIndex)
     IN /\ Continue(c, Step(r.ch, <<>>))
        /\ lastIndex' = r.lastIndex

\* the pending collaborator call of chain c fails with e
reject(c, e) ==
  /\ c \in 1..Len(chains)
  /\ chains[c].pc \notin {"done", "failed"}
  /\ chains' = [chains EXCEPT ![c] = rejected(chains[c], e)]
  /\ calls' = Settled(c, "fail", e)
  /\ top' = IF op.name = "getItems" THEN getItemsResult(chains'[c])
            ELSE IF top.status = "pending" /\ PendingOf(0) = 0
                    /\ PromiseAll(chains') = "rejected"
            THEN [top EXCEPT !.status = "rejected", !.err = e]
            ELSE top
  /\ UNCHANGED <<op, lastIndex, macroVars, findVars>>

\* the callbacks of Promise.all in getTriggers: the query is built and
\* zabbixAPI.getTriggers is called with it
getTriggersThen ==
  /\ op.name = "getTriggers"
  /\ top.status = "pending"
  /\ \A i \in 1..Len(calls) : calls[i].chain # 0
  /\ PromiseAll(chains) = "resolved"
  /\ LET query == getTriggersQuery(chains)
     IN calls' = Append(calls,
          [Call("getTriggers", 0, query.groupids, query.hostids)
             EXCEPT !.a3 = query.applicationids])
  /\ UNCHANGED <<op, chains, top, lastIndex, macroVars, findVars>>

\* zabbixAPI.getTriggers resolves
resolveTriggers ==
  /\ PendingOf(0) # 0
  /\ calls' = Settled(0, "ok", "")
  /\ top' = [top EXCEPT !.status = "resolved"]
  /\ UNCHANGED <<op, chains, lastIndex, macroVars, findVars>>

\* zabbixAPI.getTriggers fails with e
rejectTriggers(e) ==
  /\ PendingOf(0) # 0
  /\ calls' = Settled(0, "fail", e)
  /\ top' = [top EXCEPT !.status = "rejected", !.err = e]
  /\ UNCHANGED <<op, chains, lastIndex, macroVars, findVars>>

Next ==
  \/ \E g \in GroupFilters, h \in HostFilters, a \in AppFilters,
        i \in ItemFilters, d \in BOOLEAN : getItems(g, h, a, i, d)
  \/ \E g \in GroupFilters, h \in HostFilters, a \in AppFilters :
        getTriggers(g, h, a)
  \/ \E c \in 1..3 : resolveGroups(c)
  \/ \E c \in 1..3 : resolveHosts(c)
  \/ \E c \in 1..3 : resolveApps(c)
  \/ \E c \in 1..3 : resolveItems(c)
  \/ \E c \in 1..3 : resolveMacros(c)
  \/ \E c \in 1..3, e \in Errors : reject(c, e)
  \/ getTriggersThen
  \/ resolveTriggers
  \/ \E e \in Errors : rejectTriggers(e)

Spec == Init /\ [][Next]_vars

(***************************************************************************)
(* Properties of the resolution chains.                                    *)
(***************************************************************************)

CallsOf(fn) == {i \in 1..Len(calls) : calls[i].fn = fn}

HostIdsOf(hosts) == [i \in 1..Len(hosts) |-> hosts[i].hostid]

GroupIdsOf(groups) == [i \in 1..Len(groups) |-> groups[i].groupid]

AppIdsOf(apps) == [i \in 1..Len(apps) |-> apps[i].applicationid]

\* the chain has its hosts, and is a call of getApps or contains one
PastHosts(ch) ==
  /\ ch.kind \in {"getApps", "getItems"}
  /\ ch.pc \in {"getApps", "getItems", "getMacros", "done"}

\* C1: with a falsy appFilter getApps never calls cachingProxy.getApps and
\* resolves to the sentinel whose hostids are the ids of the hosts that
\* getHosts(groupFilter, hostFilter) resolves to; getAllItems then calls
\* cachingProxy.getItems with those hostids and undefined application
\* ids; with an appFilter it calls it with undefined hostids and the ids
\* of the resolved applications.  Never are both id arguments defined, or
\* both undefined.
C1_SentinelSelectsByHost ==
  /\ \A i \in CallsOf("getItems") : calls[i].a1.def # calls[i].a2.def
  /\ \A c \in 1..Len(chains) :
       LET ch == chains[c]
           mine == {i \in CallsOf("getItems") : calls[i].chain = c}
       IN IF Truthy(op.appFilter)
          THEN \A i \in mine :
                 /\ ~calls[i].a1.def
                 /\ calls[i].a2 = Ids(AppIdsOf(ch.apps.list))
                 /\ ~ch.apps.appFilterEmpty
          ELSE /\ \A i \in CallsOf("getApps") : calls[i].chain # c
               /\ (PastHosts(ch) /\ ch.pc # "getApps") =>
                    /\ ch.apps.appFilterEmpty
                    /\ ch.apps.hostids = HostIdsOf(ch.hosts)
                    /\ ch.apps.list = <<>>
               /\ (op.name = "getTriggers" /\ c = 3 /\ ch.pc = "done"
                   /\ chains[2].pc = "done") =>
                    ch.apps.hostids = HostIdsOf(chains[2].hosts)
               /\ \A i \in mine :
                    /\ calls[i].a1 = Ids(ch.apps.hostids)
                    /\ ~calls[i].a2.def

\* getItems with the appFilter "" has asked cachingProxy.getItems for the
\* items of the three hosts of the inventory, by host id
C1_Witness ==
  /\ op.name = "getItems"
  /\ op.appFilter = Str(<<>>)
  /\ \E i \in CallsOf("getItems") :
       calls[i].a1 = Ids(<<"10", "11", "12">>) /\ ~calls[i].a2.def

\* C2: the arguments of zabbixAPI.getTriggers: the id list of a dimension
\* is defined exactly when its filter was supplied (truthy), and is then
\* the list of the ids that getGroups, getHosts, getApps resolved to
\* (empty when the filter matched nothing); the id list of a dimension
\* whose filter is absent is undefined.
C2_QueryDimensionsFollowFilters ==
  \A i \in CallsOf("getTriggers") :
    /\ calls[i].a1.def <=> Truthy(op.groupFilter)
    /\ calls[i].a2.def <=> Truthy(op.hostFilter)
    /\ calls[i].a3.def <=> Truthy(op.appFilter)
    /\ calls[i].a1.def => calls[i].a1.ids = GroupIdsOf(chains[1].groups)
    /\ calls[i].a2.def => calls[i].a2.ids = HostIdsOf(chains[2].hosts)
    /\ calls[i].a3.def => calls[i].a3.ids = AppIdsOf(chains[3].apps.list)
    /\ ~calls[i].a1.def => calls[i].a1.ids = <<>>

\* zabbixAPI.getTriggers was called with an empty list of group ids (the
\* group filter matched nothing), undefined host ids (no host filter) and
\* a defined list of application ids
C2_Witness ==
  \E i \in CallsOf("getTriggers") :
    /\ op.groupFilter = Str(<<"z">>)
    /\ calls[i].a1 = Ids(<<>>)
    /\ ~calls[i].a2.def
    /\ calls[i].a3.def

\* C3: the three sub-resolutions of getTriggers are all started before
\* any of them completes (their first calls are the first three calls
\* issued); zabbixAPI.getTriggers is called at most once, and only when
\* all three have resolved; once one of them has failed, getTriggers has
\* failed with an error of a failed sub-resolution and
\* zabbixAPI.getTriggers is not called.
C3_AllThreeThenOneQuery ==
  op.name = "getTriggers" =>
    /\ Len(calls) >= 3
    /\ \A c \in 1..3 : calls[c].fn = "getGroups" /\ calls[c].chain = c
    /\ Cardinality(CallsOf("getTriggers")) <= 1
    /\ CallsOf("getTriggers") # {} => \A c \in 1..3 : chains[c].pc = "done"
    /\ (\E c \in 1..3 : chains[c].pc = "failed") =>
         /\ CallsOf("getTriggers") = {}
         /\ top.status = "rejected"
         /\ \E c \in 1..3 : chains[c].pc = "failed" /\ chains[c].err = top.err
    /\ top.status = "resolved" =>
         \E i \in CallsOf("getTriggers") : calls[i].st = "ok"

\* the sub-resolution started last (getApps) has completed while the two
\* started before it are still waiting for a collaborator
C3_Witness ==
  /\ op.name = "getTriggers"
  /\ chains[3].pc = "done"
  /\ chains[1].pc = "getGroups"
  /\ chains[2].pc = "getHosts"

\* C8 (as claimed): with an empty groupFilter the id list passed to
\* cachingProxy.getHosts holds the groupid of every group that
\* cachingProxy.getGroups returned.
C8_EmptyGroupFilterAllGroups ==
  \A i \in CallsOf("getHosts") :
    ~Truthy(op.groupFilter) =>
      \A g \in 1..Len(AllGroups) :
        AllGroups[g].groupid \in SetOf(calls[i].a1.ids)

\* the collaborator calls of getItems, in the order of the chain
ExpectedCalls ==
  <<"getGroups", "getHosts">>
    \o (IF Truthy(op.appFilter) THEN <<"getApps">> ELSE <<>>)
    \o <<"getItems", "getMacros">>

\* C9: the collaborator calls of getItems are issued in the order
\* getGroups, getHosts, getApps (with an appFilter only), getItems,
\* getMacros, each after the one before it resolved; after a failed call
\* no call is issued, no macro is expanded and no result is delivered,
\* and getItems fails with the error of that call.
C9_SequentialAndFailFast ==
  op.name = "getItems" =>
    /\ Len(calls) <= Len(ExpectedCalls)
    /\ \A i \in 1..Len(calls) :
         /\ calls[i].fn = ExpectedCalls[i]
         /\ i < Len(calls) => calls[i].st = "ok"
         /\ calls[i].st = "fail" =>
              /\ top.status = "rejected"
              /\ top.err = calls[i].err
              /\ top.items = <<>>
              /\ \A k \in 1..Len(chains[1].items) :
                   chains[1].items[k] \in SetOf(AllItems)
    /\ top.status = "rejected" => calls[Len(calls)].st = "fail"
    /\ top.status = "resolved" =>
         /\ Len(calls) = Len(ExpectedCalls)
         /\ calls[Len(calls)].st = "ok"
    /\ top.status = "pending" => calls[Len(calls)].st = "pending"

\* getItems with an appFilter: cachingProxy.getItems, the fourth call,
\* failed with e2 after three calls resolved, and getItems failed with e2
C9_Witness ==
  /\ op.name = "getItems"
  /\ Len(calls) = 4
  /\ calls[4].fn = "getItems" /\ calls[4].st = "fail" /\ calls[4].err = "e2"
  /\ top.status = "rejected" /\ top.err = "e2"

(***************************************************************************)
(* Properties of macro expansion.  The reference notions below are stated  *)
(* on the characters of the names and on the macro list, not through the   *)
(* operators of replaceMacro.                                              *)
(***************************************************************************)

\* the items the loop has already handled
Processed == {i \in 1..Len(mItems) : i < mIdx}

\* the number of occurrences of the text t in s
CountOcc(t, s) == Cardinality({i \in 1..Len(s) : IsSubstringAt(t, s, i)})

\* the number of macro tokens in s
TokenCount(s) ==
  Cardinality({i \in 1..Len(s) : \E T \in Tokens : IsSubstringAt(T, s, i)})

\* the definitions of token T in the fetched macros
DefsOf(T) == {k \in 1..Len(mMacros) : mMacros[k].macro = T}

IsGlobal(m) == m.hostid = NoHostId

\* the definitions of T that apply to item: global, or of the item's host
ApplicableDefs(T, item) ==
  {k \in DefsOf(T) : IsGlobal(mMacros[k]) \/ mMacros[k].hostid = item.hostid}

\* T has an applicable definition and the first one has a non-empty value
SelectedNonEmpty(T, item) ==
  /\ ApplicableDefs(T, item) # {}
  /\ LET k == CHOOSE x \in ApplicableDefs(T, item) :
                \A y \in ApplicableDefs(T, item) : x <= y
     IN mMacros[k].value # <<>>

SelectedValue(T, item) ==
  LET k == CHOOSE x \in ApplicableDefs(T, item) :
             \A y \in ApplicableDefs(T, item) : x <= y
  IN mMacros[k].value

\* MACRO_PATTERN.lastIndex is 0 whenever containsMacro is about to be
\* called: between the iterations of the loop and between calls
LastIndexRearmed == lastIndex = 0

\* C4 (as claimed): a host-scoped definition of T with a non-empty value
\* and the item's hostid, the only definition of T, makes T be replaced by
\* that value in the item's name; a definition of T for another host
\* leaves the occurrences of T in the name as they were.
C4_HostMacroReplaced ==
  \A i \in Processed : \A T \in Tokens :
    CountOcc(T, mOrig[i].name) > 0 =>
      /\ (\E k \in DefsOf(T) :
            /\ DefsOf(T) = {k}
            /\ mMacros[k].hostid = mOrig[i].hostid
            /\ mMacros[k].value # <<>>)
         => /\ CountOcc(T, mItems[i].name) = 0
            /\ CountOcc(SelectedValue(T, mOrig[i]), mItems[i].name) > 0
      /\ (/\ DefsOf(T) # {}
          /\ \A k \in DefsOf(T) :
               ~IsGlobal(mMacros[k]) /\ mMacros[k].hostid # mOrig[i].hostid)
         => CountOcc(T, mItems[i].name) = CountOcc(T, mOrig[i].name)

\* C5 (as claimed): a token of the name with no applicable definition, or
\* whose selected definition has an empty value, is left verbatim: every
\* occurrence of it is still in the name after expansion.
C5_UndefinedTokenVerbatim ==
  \A i \in Processed : \A T \in Tokens :
    (CountOcc(T, mOrig[i].name) > 0 /\ ~SelectedNonEmpty(T, mOrig[i]))
      => CountOcc(T, mItems[i].name) = CountOcc(T, mOrig[i].name)

C10_EveryDefinedTokenReplaced ==
  /\ lastIndex = 0
  /\ \A i \in Processed : \A T \in Tokens :
       (CountOcc(T, mOrig[i].name) > 0 /\ SelectedNonEmpty(T, mOrig[i]))
         => CountOcc(T, mItems[i].name) = 0

(***************************************************************************)
(* findByFilter as a state machine: one call on a list and a filter.       *)
(***************************************************************************)

MaxLen == 3

ElemNames == {<<"a">>, <<"b">>, <<"a", "b">>}

FindFilters ==
  {Undefined, Str(<<>>), Str(<<"a">>), Str(<<"b">>), Str(<<"z">>),
   Str(<<"/", "a", "/">>), Str(<<"/", ".", "*", "/">>)}

\* the lists of at most MaxLen elements; an element's id is its position
ElemLists ==
  {[i \in 1..Len(ns) |-> [id |-> i, name |-> ns[i]]] :
     ns \in SeqsUpTo(ElemNames, MaxLen)}

InitFind ==
  /\ fList \in ElemLists
  /\ fFilter \in FindFilters
  /\ fResult = [returned |-> FALSE, list |-> <<>>]
  /\ op = NoOp /\ chains = <<>> /\ calls = <<>> /\ top = NoTop
  /\ lastIndex = 0
  /\ mItems = <<>> /\ mOrig = <<>> /\ mMacros = <<>> /\ mIdx = 0

callFindByFilter ==
  /\ ~fResult.returned
  /\ fResult' = [returned |-> TRUE, list |-> findByFilter(fList, fFilter)]
  /\ UNCHANGED <<fList, fFilter, lastIndex, pipelineVars, macroVars>>

NextFind == callFindByFilter

SpecFind == InitFind /\ [][NextFind]_vars

\* the positions of the elements of the list whose name is the filter
NamedLike == {i \in 1..Len(fList) : ~fFilter.undef /\ fList[i].name = fFilter.str}

\* C7: for a filter classified as a plain name, findByFilter returns at
\* most one element; that element has exactly the filter as its name and
\* is the first element of the list with that name; the result is empty
\* exactly when no element of the list has that name.
C7_FindReturnsFirstExactMatch ==
  (fResult.returned /\ ~isRegex(fFilter)) =>
    /\ Len(fResult.list) <= 1
    /\ Len(fResult.list) = 1 =>
         /\ ~fFilter.undef
         /\ fResult.list[1].name = fFilter.str
         /\ fResult.list[1].id \in NamedLike
         /\ \A j \in NamedLike : fResult.list[1].id <= j
    /\ (fResult.list = <<>>) <=> (NamedLike = {})

\* a plain-name filter on a list that holds the name twice, not in first
\* place: the first of the two came back, alone
C7_Witness ==
  /\ fResult.returned
  /\ ~isRegex(fFilter)
  /\ NamedLike = {2, 3}
  /\ fResult.list = <<fList[2]>>

=============================================================================
